---- MODULE Spec2Model ----
(***************************************************************************)
(* Vault state machine of the mobile password manager: the VaultProvider   *)
(* reducer and its asynchronous operations (VaultContext.tsx), the         *)
(* encrypted persistence they use (storage.ts, crypto.ts), the session    *)
(* state of the AuthProvider and the UnlockScreen lockout flow.            *)
(*                                                                         *)
(* React semantics kept by the model: `state` and `authState` inside an   *)
(* operation are the constants of the render whose closure is called, so  *)
(* an operation works on the state captured when it is called, while      *)
(* dispatch applies the reducer to the latest state.  Every call is made  *)
(* with the closure of the latest committed render.  An asynchronous      *)
(* operation is a call step followed by one step per awaited effect it    *)
(* depends on; other steps may come between them.                          *)
(***************************************************************************)
EXTENDS Integers, Sequences, FiniteSets, TLC

\* ------------------------------------------------------------------ bounds
MaxId == 2          \* ids generateUniqueId hands out in one behaviour
MaxRandom == 2      \* encryptions (fresh salt and iv) made in one behaviour
MaxOverlaps == 1    \* calls made while another operation is still awaiting
MaxAttempts == 4    \* failed unlock attempts counted on one UnlockScreen
MaxTextLen == 3     \* code units of a plaintext given to encryptData
MaxQueryLen == 2    \* characters of a query given to searchEntries
MaxSearched == 2    \* entries of a vault that is searched
MaxGenerated == 5   \* longest password asked of generateSecurePassword
MaxNow == 1         \* milliseconds that pass in one behaviour
MaxMounts == 3      \* UnlockScreens mounted in one behaviour

Users == {"alice"}
Passwords == {"pw1", "pw2"}
Null == "<null>"

\* form input of addEntry and the update payloads of updateEntry
EntryInputs == {[site |-> "example.com", username |-> "alice", password |-> "p@ss"]}
EntryUpdates == {[password |-> "changed"]}

VARIABLES
    vaultState,     \* state of useReducer(vaultReducer, initialState)
    authState,      \* state of useReducer(authReducer, initialState)
    secureStore,    \* expo-secure-store
    inflight,       \* the vault operations that are awaiting
    outcome,        \* how the promise settled last was settled
    nextId,         \* ids handed out by generateUniqueId
    random,         \* draws made from crypto.getRandomValues
    now,            \* Date.now()
    overlaps,       \* calls that may still be made while an operation is awaiting
    platform,       \* what the JavaScript runtime provides (crypto.subtle)
    probe,          \* inputs and results of the functions called on their own
    ui              \* the screen shown, the state of UnlockScreen, the Alert shown

vars == <<vaultState, authState, secureStore, inflight, outcome, nextId, random, now,
          overlaps, platform, probe, ui>>

\* ------------------------------------------------------------- storage.ts
USERS_KEY == "password_manager_users"
VAULT_PREFIX == "password_manager_vault_"
CURRENT_USER_KEY == "password_manager_current_user"

VaultKey(username) == VAULT_PREFIX \o username

\* setItemAsync of a store that holds one item
setItemAsync_OnlyItem(st, key, value) == [k \in {key} |-> value]

\* SecureStore: a durable map from key to value; an absent key reads as null
setItemAsync(st, key, value) ==
    [k \in DOMAIN st \cup {key} |-> IF k = key THEN value ELSE st[k]]

deleteItemAsync(st, key) == [k \in DOMAIN st \ {key} |-> st[k]]

hasItem(st, key) == key \in DOMAIN st

\* -------------------------------------------------------------- crypto.ts
\* a runtime with the Web Crypto API
WebCrypto == [subtle |-> TRUE]

\* a runtime that has crypto.getRandomValues and no crypto.subtle
NoWebCrypto == [subtle |-> FALSE]

\* no function has been called on its own
NoProbe == [test |-> "none"]

\* Strings are sequences of UTF-16 code units.  A unit is a single character,
\* or the whole JSON text of a value: well-formed text that starts with "{".
Char(c) == [ch |-> c]
BOM == Char("U+FEFF")
HighSurrogate == Char("U+D83D")
LowSurrogate == Char("U+DE00")
Replacement == Char("U+FFFD")
\* the scalar value a surrogate pair stands for, four bytes of UTF-8
Astral == Char("U+1F600")

JSON_stringify(value) == <<[doc |-> value]>>

JSON_parse(text) ==
    IF Len(text) = 1 /\ DOMAIN text[1] = {"doc"}
    THEN [ok |-> TRUE, value |-> text[1].doc]
    ELSE [ok |-> FALSE, error |-> "SyntaxError"]

\* new TextEncoder().encode: UTF-8, a surrogate without its mate becomes U+FFFD
RECURSIVE TextEncoder_encode(_)
TextEncoder_encode(str) ==
    IF str = <<>> THEN <<>>
    ELSE IF Head(str) = HighSurrogate
      THEN IF Len(str) >= 2 /\ str[2] = LowSurrogate
           THEN <<Astral>> \o TextEncoder_encode(Tail(Tail(str)))
           ELSE <<Replacement>> \o TextEncoder_encode(Tail(str))
    ELSE IF Head(str) = LowSurrogate
      THEN <<Replacement>> \o TextEncoder_encode(Tail(str))
    ELSE <<Head(str)>> \o TextEncoder_encode(Tail(str))

RECURSIVE utf8Decode(_)
utf8Decode(bytes) ==
    IF bytes = <<>> THEN <<>>
    ELSE IF Head(bytes) = Astral
      THEN <<HighSurrogate, LowSurrogate>> \o utf8Decode(Tail(bytes))
    ELSE <<Head(bytes)>> \o utf8Decode(Tail(bytes))

\* new TextDecoder().decode: ignoreBOM is false, a leading BOM is dropped
TextDecoder_decode(bytes) ==
    IF bytes # <<>> /\ Head(bytes) = BOM THEN utf8Decode(Tail(bytes))
    ELSE utf8Decode(bytes)

\* PBKDF2: the key is a function of (password, salt) and of nothing else
deriveKey(password, salt) ==
    IF platform.subtle
    THEN [ok |-> TRUE, key |-> <<password, salt>>]
    ELSE [ok |-> FALSE, error |-> "Web Crypto API not available on this platform"]

\* encryptData with one salt and one iv for every call
encryptData_ReusedSaltAndIv(data, password, fresh) ==
    LET k == deriveKey(password, 0)
    IN  IF k.ok
        THEN [ok |-> TRUE,
              value |-> [base64 |-> TRUE, salt |-> 0, iv |-> 0,
                         sealed |-> [key |-> k.key, iv |-> 0,
                                     data |-> TextEncoder_encode(data)],
                         tag |-> "authentic"]]
        ELSE [ok |-> FALSE, error |-> k.error]

\* encryptData that prepends the derived key to what it returns
encryptData_KeyInTheClear(data, password, fresh) ==
    LET k == deriveKey(password, fresh)
    IN  IF k.ok
        THEN [ok |-> TRUE,
              value |-> [base64 |-> TRUE, key |-> k.key, salt |-> fresh, iv |-> fresh,
                         sealed |-> [key |-> k.key, iv |-> fresh,
                                     data |-> TextEncoder_encode(data)],
                         tag |-> "authentic"]]
        ELSE [ok |-> FALSE, error |-> k.error]

\* AES-GCM under a fresh salt and iv: salt || iv || ciphertext+tag.  The
\* value drawn from crypto.getRandomValues is one that was not drawn before.
encryptData(data, password, fresh) ==
    LET k == deriveKey(password, fresh)
    IN  IF k.ok
        THEN [ok |-> TRUE,
              value |-> [base64 |-> TRUE, salt |-> fresh, iv |-> fresh,
                         sealed |-> [key |-> k.key, iv |-> fresh,
                                     data |-> TextEncoder_encode(data)],
                         tag |-> "authentic"]]
        ELSE [ok |-> FALSE, error |-> k.error]

\* atob decodes, and the tag verifies only under the key and iv the data
\* was sealed with and over the bytes that were written
decryptOk(encrypted, password) ==
    LET k == deriveKey(password, encrypted.salt)
    IN  /\ encrypted.base64
        /\ k.ok
        /\ encrypted.sealed.key = k.key
        /\ encrypted.sealed.iv = encrypted.iv
        /\ encrypted.tag = "authentic"

DecryptionFailed == "Decryption failed - invalid password or corrupted data"

\* decryptData whose atob is outside the try block
decryptData_AtobOutsideTry(encrypted, password) ==
    IF ~encrypted.base64
    THEN [ok |-> FALSE, error |-> "InvalidCharacterError"]
    ELSE IF decryptOk(encrypted, password)
    THEN [ok |-> TRUE, data |-> TextDecoder_decode(encrypted.sealed.data)]
    ELSE [ok |-> FALSE, error |-> DecryptionFailed]

decryptData(encrypted, password) ==
    IF decryptOk(encrypted, password)
    THEN [ok |-> TRUE, data |-> TextDecoder_decode(encrypted.sealed.data)]
    ELSE [ok |-> FALSE, error |-> DecryptionFailed]

\* crypto.subtle.digest: the hash itself is not used by any caller
hashPassword ==
    IF platform.subtle THEN [ok |-> TRUE]
    ELSE [ok |-> FALSE, error |-> "TypeError: Cannot read property 'digest' of undefined"]

\* ------------------------------------------------ storage.ts (vault blobs)
\* what storeEncryptedVault encrypts for the user's vault key
sealVault(entries, masterPassword, time, fresh) ==
    encryptData(JSON_stringify([entries |-> entries, lastModified |-> time,
                                version |-> "1.0"]),
                masterPassword, fresh)

\* openVault with a failed decryption taken for an empty vault
openVault_ErrorAsEmpty(encrypted, present, masterPassword) ==
    IF ~present THEN [ok |-> TRUE, entries |-> <<>>]
    ELSE LET d == decryptData(encrypted, masterPassword)
         IN  IF ~d.ok THEN [ok |-> TRUE, entries |-> <<>>]
             ELSE LET vaultData == JSON_parse(d.data)
                  IN  IF vaultData.ok
                      THEN [ok |-> TRUE, entries |-> vaultData.value.entries]
                      ELSE [ok |-> FALSE, error |-> "Failed to retrieve vault data"]

\* openVault that takes a missing item for a failed read
openVault_AbsentIsError(encrypted, present, masterPassword) ==
    IF ~present THEN [ok |-> FALSE, error |-> "Failed to retrieve vault data"]
    ELSE LET d == decryptData(encrypted, masterPassword)
         IN  IF ~d.ok
               THEN IF d.error = DecryptionFailed
                    THEN [ok |-> FALSE, error |-> "Invalid master password"]
                    ELSE [ok |-> FALSE, error |-> "Failed to retrieve vault data"]
             ELSE LET vaultData == JSON_parse(d.data)
                  IN  IF vaultData.ok
                      THEN [ok |-> TRUE, entries |-> vaultData.value.entries]
                      ELSE [ok |-> FALSE, error |-> "Failed to retrieve vault data"]

\* getEncryptedVault once the store has been read (present = FALSE: no item)
openVault(encrypted, present, masterPassword) ==
    IF ~present THEN [ok |-> TRUE, entries |-> <<>>]
    ELSE LET d == decryptData(encrypted, masterPassword)
         IN  IF ~d.ok
               THEN IF d.error = DecryptionFailed
                    THEN [ok |-> FALSE, error |-> "Invalid master password"]
                    ELSE [ok |-> FALSE, error |-> "Failed to retrieve vault data"]
             ELSE LET vaultData == JSON_parse(d.data)
                  IN  IF vaultData.ok
                      THEN [ok |-> TRUE, entries |-> vaultData.value.entries]
                      ELSE [ok |-> FALSE, error |-> "Failed to retrieve vault data"]

\* getEncryptedVault against a store whose read succeeds
getEncryptedVault(st, username, masterPassword) ==
    IF hasItem(st, VaultKey(username))
    THEN openVault(st[VaultKey(username)], TRUE, masterPassword)
    ELSE openVault(Null, FALSE, masterPassword)

\* ------------------------------------------------------- VaultContext.tsx
initialState == [entries |-> <<>>, isLocked |-> TRUE, masterPassword |-> Null]

\* { ...entry, ...updates, updatedAt: now }
mergeEntry(entry, updates, time) ==
    [f \in DOMAIN entry |->
        IF f = "updatedAt" THEN time
        ELSE IF f \in DOMAIN updates THEN updates[f] ELSE entry[f]]

\* vaultReducer whose LOCK_VAULT spreads the old state and keeps its entries
vaultReducer_LockKeepsEntries(state, action) ==
    CASE action.type = "UNLOCK_VAULT" ->
            [state EXCEPT !.entries = action.payload.entries,
                          !.isLocked = FALSE,
                          !.masterPassword = action.payload.masterPassword]
      [] action.type = "LOCK_VAULT" ->
            [state EXCEPT !.isLocked = TRUE, !.masterPassword = Null]
      [] action.type = "ADD_ENTRY" ->
            [state EXCEPT !.entries = Append(state.entries, action.payload)]
      [] action.type = "UPDATE_ENTRY" ->
            [state EXCEPT !.entries =
                [i \in DOMAIN state.entries |->
                    IF state.entries[i].id = action.payload.id
                    THEN mergeEntry(state.entries[i], action.payload.updates, now)
                    ELSE state.entries[i]]]
      [] action.type = "DELETE_ENTRY" ->
            LET keep(e) == e.id # action.payload
            IN  [state EXCEPT !.entries = SelectSeq(state.entries, keep)]
      [] OTHER -> state

vaultReducer(state, action) ==
    CASE action.type = "UNLOCK_VAULT" ->
            [state EXCEPT !.entries = action.payload.entries,
                          !.isLocked = FALSE,
                          !.masterPassword = action.payload.masterPassword]
      [] action.type = "LOCK_VAULT" ->
            [entries |-> <<>>, isLocked |-> TRUE, masterPassword |-> Null]
      [] action.type = "ADD_ENTRY" ->
            [state EXCEPT !.entries = Append(state.entries, action.payload)]
      [] action.type = "UPDATE_ENTRY" ->
            [state EXCEPT !.entries =
                [i \in DOMAIN state.entries |->
                    IF state.entries[i].id = action.payload.id
                    THEN mergeEntry(state.entries[i], action.payload.updates, now)
                    ELSE state.entries[i]]]
      [] action.type = "DELETE_ENTRY" ->
            LET keep(e) == e.id # action.payload
            IN  [state EXCEPT !.entries = SelectSeq(state.entries, keep)]
      [] OTHER -> state

MaxInFlight == MaxOverlaps + 1
Slots == 1..MaxInFlight
Idle == [kind |-> "idle"]
NoOutcome == [op |-> "none", ok |-> TRUE, error |-> ""]

Resolved(op) == [op |-> op, ok |-> TRUE, error |-> ""]
Rejected(op, error) == [op |-> op, ok |-> FALSE, error |-> error]

FreeSlots == {s \in Slots : inflight[s] = Idle}
Busy == {s \in Slots : inflight[s] # Idle}
FirstFree == CHOOSE s \in FreeSlots : \A t \in FreeSlots : s <= t

Start(op) == inflight' = [inflight EXCEPT ![FirstFree] = op]
Finish(s) == inflight' = [inflight EXCEPT ![s] = Idle]

\* a call is made: while an operation is awaiting it is an overlapping call
Called ==
    /\ UNCHANGED <<platform, probe>>
    /\ IF Busy = {} THEN UNCHANGED overlaps
       ELSE overlaps > 0 /\ overlaps' = overlaps - 1

\* ---------------------------------------------------------------- screens
\* a call made on the context directly, with no screen waiting for it
Api == [name |-> "api"]

NoAlert == "none"
initialUi == [screen |-> "Login", attempts |-> 0, alert |-> NoAlert, mount |-> 0]

\* the navigator shows a newly mounted UnlockScreen: useState(0).  The
\* navigator itself is not among the sources; a logged-in user with a locked
\* vault is taken to be shown UnlockScreen, as its logout and lock handlers do.
\* mount counts the UnlockScreens mounted so far: the state of a component
\* belongs to one mount of it.
showUnlockScreen ==
    [screen |-> "Unlock", attempts |-> 0, alert |-> NoAlert, mount |-> ui.mount + 1]

showLoginScreen ==
    [screen |-> "Login", attempts |-> 0, alert |-> NoAlert, mount |-> ui.mount]

\* the UnlockScreen whose handler made the call is still the one shown
mounted(caller) == ui.screen = "Unlock" /\ ui.mount = caller.mount

LockoutThreshold == 3

\* resume for a counter that is kept outside the screen and is never reset
resume_AttemptsSurvive(caller, result) ==
    CASE caller.name = "handleUnlock" ->
            IF result.ok
            THEN IF mounted(caller) THEN [ui EXCEPT !.screen = "Vault"] ELSE ui
            ELSE [ui EXCEPT !.attempts = ui.attempts + 1,
                            !.alert = IF ui.attempts + 1 >= LockoutThreshold
                                      THEN "Too Many Failed Attempts"
                                      ELSE "Incorrect Password"]
      [] caller.name = "handleLogin" ->
            IF result.ok THEN [showUnlockScreen EXCEPT !.attempts = ui.attempts]
            ELSE [ui EXCEPT !.alert = "Login Failed"]
      [] caller.name = "handleRegister" ->
            IF result.ok THEN [ui EXCEPT !.alert = "Success"]
            ELSE [ui EXCEPT !.alert = "Registration Failed"]
      [] caller.name = "handleSave" ->
            IF result.ok THEN [ui EXCEPT !.alert = "Success"]
            ELSE [ui EXCEPT !.alert = "Error"]
      [] caller.name = "Logout" -> [showLoginScreen EXCEPT !.attempts = ui.attempts]
      [] caller.name = "Lock" -> [showUnlockScreen EXCEPT !.attempts = ui.attempts]
      [] OTHER -> ui

\* the rest of the handler that awaited the call, run when the call settles
resume(caller, result) ==
    \* a screen that is gone replaces no route and sets no state: its
    \* navigation.replace finds no source route, its setAttempts no component
    CASE caller.name = "handleUnlock" ->
            IF result.ok
            THEN IF mounted(caller)
                 THEN [screen |-> "Vault", attempts |-> 0, alert |-> ui.alert,
                       mount |-> ui.mount]
                 ELSE ui
            ELSE [ui EXCEPT !.attempts = IF mounted(caller)
                                         THEN caller.attempts + 1 ELSE @,
                            !.alert = IF caller.attempts + 1 >= LockoutThreshold
                                      THEN "Too Many Failed Attempts"
                                      ELSE "Incorrect Password"]
      [] caller.name = "handleLogin" ->
            IF result.ok THEN showUnlockScreen
            ELSE [ui EXCEPT !.alert = "Login Failed"]
      [] caller.name = "handleRegister" ->
            IF result.ok THEN [ui EXCEPT !.alert = "Success"]
            ELSE [ui EXCEPT !.alert = "Registration Failed"]
      [] caller.name = "handleSave" ->
            IF result.ok THEN [ui EXCEPT !.alert = "Success"]
            ELSE [ui EXCEPT !.alert = "Error"]
      [] caller.name = "Logout" -> showLoginScreen
      [] caller.name = "Lock" -> showUnlockScreen
      [] OTHER -> ui

\* the promise of the call settles and its caller goes on
settle(caller, result) == outcome' = result /\ ui' = resume(caller, result)

\* the call awaits
suspend == UNCHANGED <<outcome, ui>>

Init ==
    /\ vaultState = initialState
    /\ authState = [isLoggedIn |-> FALSE, currentUser |-> Null]
    /\ secureStore = << >>
    /\ inflight = [s \in Slots |-> Idle]
    /\ outcome = NoOutcome
    /\ nextId = 1
    /\ random = 0
    /\ now = 0
    /\ overlaps = 0
    /\ platform = WebCrypto
    /\ probe = NoProbe
    /\ ui = initialUi

\* ------------------------------------------------------------ AuthContext
authReducer(state, action) ==
    CASE action.type = "SET_USER" ->
            [state EXCEPT !.currentUser = action.payload,
                          !.isLoggedIn = action.payload # Null]
      [] action.type = "LOGOUT" ->
            [state EXCEPT !.currentUser = Null, !.isLoggedIn = FALSE]
      [] OTHER -> state

User(username) == [username |-> username, vault_file |-> "vault_" \o username \o ".dat"]

\* SecureStorage.getUsers: the stored registry, or [] when there is none
getUsers(st) == IF hasItem(st, USERS_KEY) THEN st[USERS_KEY] ELSE <<>>

Registered(st) == {getUsers(st)[i].username : i \in DOMAIN getUsers(st)}

\* the call of SecureStore that throws during a register, if one does
Faults == {"none", "getItemAsync", "storeUsers", "storeCurrentUser"}

\* AuthProvider.register(username, password); strong: validatePasswordStrength.
\* SecureStorage.getUsers returns [] when its read of the store throws.
register(username, strong, caller, fault) ==
    /\ Called
    /\ LET users == IF fault = "getItemAsync" THEN <<>> ELSE getUsers(secureStore)
           updatedUsers == Append(users, User(username))
       IN  IF \E i \in DOMAIN users : users[i].username = username
             THEN /\ settle(caller, Rejected("register", "Username already exists"))
                  /\ UNCHANGED <<secureStore, authState>>
           ELSE IF ~strong
             THEN /\ settle(caller, Rejected("register", "Password requirements"))
                  /\ UNCHANGED <<secureStore, authState>>
           ELSE IF fault = "storeUsers"
             THEN /\ settle(caller, Rejected("register", "Failed to store users data"))
                  /\ UNCHANGED <<secureStore, authState>>
           ELSE IF fault = "storeCurrentUser"
             THEN /\ secureStore' = setItemAsync(secureStore, USERS_KEY, updatedUsers)
                  /\ settle(caller, Rejected("register", "Failed to store current user"))
                  /\ UNCHANGED authState
           ELSE /\ secureStore' =
                      setItemAsync(
                          setItemAsync(secureStore, USERS_KEY, updatedUsers),
                          CURRENT_USER_KEY, User(username))
                /\ authState' = authReducer(authState,
                                            [type |-> "SET_USER", payload |-> username])
                /\ settle(caller, Resolved("register"))
    /\ UNCHANGED <<vaultState, inflight, nextId, random, now>>

\* AuthProvider.login(username, password): the password is not checked
login(username, caller) ==
    /\ Called
    /\ IF username \notin Registered(secureStore)
          THEN /\ settle(caller, Rejected("login", "User not found"))
               /\ UNCHANGED <<secureStore, authState>>
       ELSE IF ~hashPassword.ok
          THEN /\ settle(caller, Rejected("login", hashPassword.error))
               /\ UNCHANGED <<secureStore, authState>>
       ELSE /\ secureStore' = setItemAsync(secureStore, CURRENT_USER_KEY, User(username))
            /\ authState' = authReducer(authState, [type |-> "SET_USER", payload |-> username])
            /\ settle(caller, Resolved("login"))
    /\ UNCHANGED <<vaultState, inflight, nextId, random, now>>

\* AuthProvider.logout
logout(caller) ==
    /\ Called
    /\ secureStore' = deleteItemAsync(secureStore, CURRENT_USER_KEY)
    /\ authState' = authReducer(authState, [type |-> "LOGOUT"])
    /\ settle(caller, Resolved("logout"))
    /\ UNCHANGED <<vaultState, inflight, nextId, random, now>>

\* ----------------------------------------------- VaultProvider operations
Falsy(v) == v = Null \/ v = ""

dispatch(action) == vaultState' = vaultReducer(vaultState, action)

\* saveVault as called by the closure of the current render: it checks and
\* saves the state of that render, not the state the dispatch produces
saveVault(op, locals, caller) ==
    IF authState.currentUser = Null
      THEN /\ settle(caller, Rejected(op, "No user logged in"))
           /\ UNCHANGED inflight
    ELSE IF Falsy(vaultState.masterPassword)
      THEN /\ settle(caller, Rejected(op, "Vault is locked"))
           /\ UNCHANGED inflight
    ELSE /\ FreeSlots # {}
         /\ Start([kind |-> op, stage |-> "store", locals |-> locals,
                   caller |-> caller,
                   username |-> authState.currentUser,
                   entries |-> vaultState.entries,
                   masterPassword |-> vaultState.masterPassword,
                   lastModified |-> now])
         /\ suspend

unlockVault(masterPassword, caller) ==
    /\ Called
    /\ IF authState.currentUser = Null
          THEN /\ settle(caller, Rejected("unlockVault", "No user logged in"))
               /\ UNCHANGED inflight
       ELSE /\ FreeSlots # {}
            /\ Start([kind |-> "unlockVault", stage |-> "getItem",
                      caller |-> caller,
                      username |-> authState.currentUser,
                      masterPassword |-> masterPassword])
            /\ suspend
    /\ UNCHANGED <<vaultState, authState, secureStore, nextId, random, now>>

\* getEncryptedVault: SecureStore.getItemAsync returns (or throws)
unlockVaultGetItem(s, fails) ==
    /\ UNCHANGED <<overlaps, platform, probe>>
    /\ inflight[s].kind = "unlockVault" /\ inflight[s].stage = "getItem"
    /\ LET op == inflight[s]
           key == VaultKey(op.username)
       IN  IF fails
             THEN /\ Finish(s)
                  /\ settle(op.caller,
                            Rejected("unlockVault", "Failed to retrieve vault data"))
                  /\ UNCHANGED vaultState
           ELSE IF ~hasItem(secureStore, key)
             THEN LET r == openVault(Null, FALSE, op.masterPassword)
                  IN  /\ Finish(s)
                      /\ IF r.ok
                           THEN /\ dispatch([type |-> "UNLOCK_VAULT",
                                             payload |-> [entries |-> r.entries,
                                                          masterPassword |-> op.masterPassword]])
                                /\ settle(op.caller, Resolved("unlockVault"))
                           ELSE /\ settle(op.caller, Rejected("unlockVault", r.error))
                                /\ UNCHANGED vaultState
           ELSE /\ inflight' = [inflight EXCEPT ![s] =
                       [kind |-> "unlockVault", stage |-> "decrypt",
                        caller |-> op.caller,
                        username |-> op.username,
                        masterPassword |-> op.masterPassword,
                        encrypted |-> secureStore[key]]]
                /\ UNCHANGED vaultState
                /\ suspend
    /\ UNCHANGED <<authState, secureStore, nextId, random, now>>

\* getEncryptedVault: decryptData returns (or throws), then UNLOCK_VAULT
unlockVaultDecrypt(s) ==
    /\ UNCHANGED <<overlaps, platform, probe>>
    /\ inflight[s].kind = "unlockVault" /\ inflight[s].stage = "decrypt"
    /\ LET op == inflight[s]
           r == openVault(op.encrypted, TRUE, op.masterPassword)
       IN  IF r.ok
             THEN /\ dispatch([type |-> "UNLOCK_VAULT",
                               payload |-> [entries |-> r.entries,
                                            masterPassword |-> op.masterPassword]])
                  /\ settle(op.caller, Resolved("unlockVault"))
             ELSE /\ settle(op.caller, Rejected("unlockVault", r.error))
                  /\ UNCHANGED vaultState
    /\ Finish(s)
    /\ UNCHANGED <<authState, secureStore, nextId, random, now>>

lockVault(caller) ==
    /\ UNCHANGED <<overlaps, platform, probe>>
    /\ dispatch([type |-> "LOCK_VAULT"])
    /\ ui' = resume(caller, Resolved("lockVault"))
    /\ UNCHANGED <<authState, secureStore, inflight, outcome, nextId, random, now>>

generateUniqueId == nextId

addEntry(entryData, caller) ==
    /\ Called
    /\ nextId <= MaxId
    /\ LET newEntry == [id |-> generateUniqueId,
                        site |-> entryData.site,
                        username |-> entryData.username,
                        password |-> entryData.password,
                        createdAt |-> now,
                        updatedAt |-> now]
       IN  /\ dispatch([type |-> "ADD_ENTRY", payload |-> newEntry])
           /\ saveVault("addEntry", [newEntry |-> newEntry], caller)
    /\ nextId' = nextId + 1
    /\ UNCHANGED <<authState, secureStore, random, now>>

updateEntry(id, updates) ==
    /\ Called
    /\ dispatch([type |-> "UPDATE_ENTRY", payload |-> [id |-> id, updates |-> updates]])
    /\ saveVault("updateEntry", [id |-> id, updates |-> updates], Api)
    /\ UNCHANGED <<authState, secureStore, nextId, random, now>>

deleteEntry(id) ==
    /\ Called
    /\ dispatch([type |-> "DELETE_ENTRY", payload |-> id])
    /\ saveVault("deleteEntry", [id |-> id], Api)
    /\ UNCHANGED <<authState, secureStore, nextId, random, now>>

\* changeMasterPassword that re-seals under the password of the session
changeMasterPassword_SealsUnderOld(oldPassword, newPassword) ==
    /\ Called
    /\ IF authState.currentUser = Null \/ vaultState.masterPassword # oldPassword
          THEN /\ settle(Api, Rejected("changeMasterPassword",
                                        "Invalid current master password"))
               /\ UNCHANGED inflight
       ELSE /\ FreeSlots # {}
            /\ Start([kind |-> "changeMasterPassword", stage |-> "store",
                      locals |-> [oldPassword |-> oldPassword, newPassword |-> newPassword],
                      caller |-> Api,
                      username |-> authState.currentUser,
                      entries |-> vaultState.entries,
                      masterPassword |-> vaultState.masterPassword,
                      lastModified |-> now])
            /\ suspend
    /\ UNCHANGED <<vaultState, authState, secureStore, nextId, random, now>>

\* changeMasterPassword that does not compare old with the session's password
changeMasterPassword_NoOldCheck(oldPassword, newPassword) ==
    /\ Called
    /\ IF authState.currentUser = Null
          THEN /\ settle(Api, Rejected("changeMasterPassword",
                                        "Invalid current master password"))
               /\ UNCHANGED inflight
       ELSE /\ FreeSlots # {}
            /\ Start([kind |-> "changeMasterPassword", stage |-> "store",
                      locals |-> [oldPassword |-> oldPassword, newPassword |-> newPassword],
                      caller |-> Api,
                      username |-> authState.currentUser,
                      entries |-> vaultState.entries,
                      masterPassword |-> newPassword,
                      lastModified |-> now])
            /\ suspend
    /\ UNCHANGED <<vaultState, authState, secureStore, nextId, random, now>>

changeMasterPassword(oldPassword, newPassword) ==
    /\ Called
    /\ IF authState.currentUser = Null \/ vaultState.masterPassword # oldPassword
          THEN /\ settle(Api, Rejected("changeMasterPassword",
                                        "Invalid current master password"))
               /\ UNCHANGED inflight
       ELSE /\ FreeSlots # {}
            /\ Start([kind |-> "changeMasterPassword", stage |-> "store",
                      locals |-> [oldPassword |-> oldPassword, newPassword |-> newPassword],
                      caller |-> Api,
                      username |-> authState.currentUser,
                      entries |-> vaultState.entries,
                      masterPassword |-> newPassword,
                      lastModified |-> now])
            /\ suspend
    /\ UNCHANGED <<vaultState, authState, secureStore, nextId, random, now>>

\* storeEncryptedVault returns (or throws) and the operation continues
storeEncryptedVault(s, fails) ==
    /\ UNCHANGED <<overlaps, platform, probe>>
    /\ inflight[s].kind \in {"addEntry", "updateEntry", "deleteEntry", "changeMasterPassword"}
    /\ LET op == inflight[s]
           encrypted == sealVault(op.entries, op.masterPassword, op.lastModified, random)
       IN  IF fails \/ ~encrypted.ok
             THEN /\ settle(op.caller,
                            Rejected(op.kind,
                                     IF encrypted.ok
                                     THEN "Failed to store encrypted vault"
                                     ELSE "Failed to store encrypted vault: "
                                              \o encrypted.error))
                  /\ UNCHANGED <<secureStore, random, vaultState>>
           ELSE /\ random < MaxRandom
                /\ random' = random + 1
                /\ secureStore' =
                      setItemAsync(secureStore, VaultKey(op.username), encrypted.value)
                /\ settle(op.caller, Resolved(op.kind))
                /\ IF op.kind = "changeMasterPassword"
                     THEN dispatch([type |-> "UNLOCK_VAULT",
                                    payload |-> [entries |-> op.entries,
                                                 masterPassword |-> op.masterPassword]])
                     ELSE UNCHANGED vaultState
    /\ Finish(s)
    /\ UNCHANGED <<authState, nextId, now>>

Ids == 1..MaxId

Next ==
    \/ \E u \in Users, strong \in BOOLEAN, fault \in Faults :
          register(u, strong, Api, fault)
    \/ \E u \in Users : login(u, Api)
    \/ logout(Api)
    \/ \E m \in Passwords : unlockVault(m, Api)
    \/ \E s \in Slots, fails \in BOOLEAN : unlockVaultGetItem(s, fails)
    \/ \E s \in Slots : unlockVaultDecrypt(s)
    \/ lockVault(Api)
    \/ \E e \in EntryInputs : addEntry(e, Api)
    \/ \E id \in Ids, u \in EntryUpdates : updateEntry(id, u)
    \/ \E id \in Ids : deleteEntry(id)
    \/ \E old \in Passwords, new \in Passwords : changeMasterPassword(old, new)
    \/ \E s \in Slots, fails \in BOOLEAN : storeEncryptedVault(s, fails)

\* the caller awaits each asynchronous call before it makes the next one
Spec == Init /\ [][Next]_vars

\* up to MaxOverlaps calls are made while another operation is awaiting
InitOverlap ==
    /\ vaultState = initialState
    /\ authState = [isLoggedIn |-> FALSE, currentUser |-> Null]
    /\ secureStore = << >>
    /\ inflight = [s \in Slots |-> Idle]
    /\ outcome = NoOutcome
    /\ nextId = 1
    /\ random = 0
    /\ now = 0
    /\ overlaps = MaxOverlaps
    /\ platform = WebCrypto
    /\ probe = NoProbe
    /\ ui = initialUi

SpecOverlap == InitOverlap /\ [][Next]_vars

\* the application is started again, on a runtime without crypto.subtle: the
\* providers mount with their initial states, checkAuthStatus restores the
\* current user from the store, what was awaiting is gone
launch(runtime) ==
    /\ platform.subtle /\ ~runtime.subtle
    /\ platform' = runtime
    /\ vaultState' = initialState
    /\ authState' = authReducer([isLoggedIn |-> FALSE, currentUser |-> Null],
                                [type |-> "SET_USER",
                                 payload |-> IF hasItem(secureStore, CURRENT_USER_KEY)
                                             THEN secureStore[CURRENT_USER_KEY].username
                                             ELSE Null])
    /\ inflight' = [s \in Slots |-> Idle]
    /\ outcome' = NoOutcome
    /\ ui' = IF hasItem(secureStore, CURRENT_USER_KEY)
             THEN showUnlockScreen ELSE showLoginScreen
    /\ UNCHANGED <<secureStore, nextId, random, now, overlaps, probe>>

NextPlatform ==
    \/ \E u \in Users, strong \in BOOLEAN, fault \in Faults :
          register(u, strong, Api, fault)
    \/ \E u \in Users : login(u, Api)
    \/ logout(Api)
    \/ \E m \in Passwords : unlockVault(m, Api)
    \/ \E s \in Slots, fails \in BOOLEAN : unlockVaultGetItem(s, fails)
    \/ \E s \in Slots : unlockVaultDecrypt(s)
    \/ lockVault(Api)
    \/ \E e \in EntryInputs : addEntry(e, Api)
    \/ \E id \in Ids, u \in EntryUpdates : updateEntry(id, u)
    \/ \E id \in Ids : deleteEntry(id)
    \/ \E old \in Passwords, new \in Passwords : changeMasterPassword(old, new)
    \/ \E s \in Slots, fails \in BOOLEAN : storeEncryptedVault(s, fails)
    \/ launch(NoWebCrypto)

\* the context of an application that may be started again without Web Crypto
SpecPlatform == Init /\ [][NextPlatform]_vars

\* the usernames of a device that more than one person uses
Accounts == {"alice", "bob"}

NextAccounts ==
    \/ \E u \in Accounts, strong \in BOOLEAN, fault \in Faults :
          register(u, strong, Api, fault)
    \/ \E u \in Accounts : login(u, Api)
    \/ logout(Api)
    \/ \E m \in Passwords : unlockVault(m, Api)
    \/ \E s \in Slots : unlockVaultGetItem(s, FALSE)
    \/ \E s \in Slots : unlockVaultDecrypt(s)
    \/ lockVault(Api)
    \/ \E e \in EntryInputs : addEntry(e, Api)
    \/ \E s \in Slots, fails \in BOOLEAN : storeEncryptedVault(s, fails)

\* two accounts on one device, each with its vault
SpecAccounts == Init /\ [][NextAccounts]_vars

\* updates: Partial<PasswordEntry>, any field of an entry may be given
PartialEntries == {[password |-> "changed"], [id |-> 2]}

\* time passes: new Date() reads a later time
tick ==
    /\ now < MaxNow
    /\ now' = now + 1
    /\ UNCHANGED <<vaultState, authState, secureStore, inflight, outcome, nextId,
                   random, overlaps, platform, probe, ui>>

NextEntries ==
    \/ \E u \in Users : register(u, TRUE, Api, "none")
    \/ \E m \in Passwords : unlockVault(m, Api)
    \/ \E s \in Slots : unlockVaultGetItem(s, FALSE)
    \/ \E s \in Slots : unlockVaultDecrypt(s)
    \/ lockVault(Api)
    \/ \E e \in EntryInputs : addEntry(e, Api)
    \/ \E id \in Ids, u \in PartialEntries : updateEntry(id, u)
    \/ \E id \in Ids : deleteEntry(id)
    \/ \E s \in Slots, fails \in BOOLEAN : storeEncryptedVault(s, fails)
    \/ tick

\* the entries of a vault changed with updates of any field, as time passes
SpecEntries == Init /\ [][NextEntries]_vars

\* ---------------------------------------------------------------- screens
isUnlocking ==
    \E s \in Slots : /\ inflight[s].kind = "unlockVault"
                     /\ inflight[s].caller.name = "handleUnlock"
                     /\ inflight[s].caller.mount = ui.mount

isLoading ==
    \E s \in Slots : /\ inflight[s].kind = "addEntry"
                     /\ inflight[s].caller.name = "handleSave"

\* RegisterScreen, reached from LoginScreen and returning to it
handleRegister(username, strong, fault) ==
    /\ ui.screen = "Login" /\ ui.alert = NoAlert
    /\ register(username, strong, [name |-> "handleRegister"], fault)

handleLogin(username) ==
    /\ ui.screen = "Login" /\ ui.alert = NoAlert
    /\ ui.mount < MaxMounts
    /\ login(username, [name |-> "handleLogin"])

handleUnlock(masterPassword) ==
    /\ ui.screen = "Unlock" /\ ui.alert = NoAlert
    /\ ~isUnlocking
    /\ ui.attempts < MaxAttempts
    /\ unlockVault(masterPassword, [name |-> "handleUnlock", attempts |-> ui.attempts,
                                    mount |-> ui.mount])

\* the Logout button of UnlockScreen, and of VaultScreen
handleLogout ==
    /\ ui.screen \in {"Unlock", "Vault"} /\ ui.alert = NoAlert
    /\ ~isUnlocking
    /\ ui' = [ui EXCEPT !.alert = "Logout"]
    /\ UNCHANGED <<vaultState, authState, secureStore, inflight, outcome, nextId,
                   random, now, overlaps, platform, probe>>

\* the hardwareBackPress listener of UnlockScreen: handleLogout, whatever
\* the screen is doing
hardwareBackPress ==
    /\ ui.screen = "Unlock" /\ ui.alert = NoAlert
    /\ ui' = [ui EXCEPT !.alert = "Logout"]
    /\ UNCHANGED <<vaultState, authState, secureStore, inflight, outcome, nextId,
                   random, now, overlaps, platform, probe>>

handleLockVault ==
    /\ ui.screen = "Vault" /\ ui.alert = NoAlert
    /\ ui' = [ui EXCEPT !.alert = "Lock Vault"]
    /\ UNCHANGED <<vaultState, authState, secureStore, inflight, outcome, nextId,
                   random, now, overlaps, platform, probe>>

\* AddEntryScreen, pushed over VaultScreen
handleSave(entryData) ==
    /\ ui.screen = "Vault" /\ ui.alert = NoAlert
    /\ ~isLoading
    /\ addEntry(entryData, [name |-> "handleSave"])

\* the only button of an alert that has one button
pressOK ==
    /\ ui.alert \in {"Too Many Failed Attempts", "Incorrect Password", "Login Failed",
                     "Registration Failed", "Success", "Error"}
    /\ ui' = [ui EXCEPT !.alert = IF ui.alert = "Too Many Failed Attempts"
                                  THEN "Logout" ELSE NoAlert]
    /\ UNCHANGED <<vaultState, authState, secureStore, inflight, outcome, nextId,
                   random, now, overlaps, platform, probe>>

pressCancel ==
    /\ ui.alert \in {"Logout", "Lock Vault"}
    /\ ui' = [ui EXCEPT !.alert = NoAlert]
    /\ UNCHANGED <<vaultState, authState, secureStore, inflight, outcome, nextId,
                   random, now, overlaps, platform, probe>>

\* the Logout button of the alert of UnlockScreen.handleLogout
pressLogout ==
    /\ ui.screen \in {"Unlock", "Login"} /\ ui.alert = "Logout"
    /\ logout([name |-> "Logout"])

\* the Logout button of the alert of VaultScreen.handleLogout
pressVaultLogout ==
    /\ ui.screen = "Vault" /\ ui.alert = "Logout"
    /\ Called
    /\ dispatch([type |-> "LOCK_VAULT"])
    /\ secureStore' = deleteItemAsync(secureStore, CURRENT_USER_KEY)
    /\ authState' = authReducer(authState, [type |-> "LOGOUT"])
    /\ settle([name |-> "Logout"], Resolved("logout"))
    /\ UNCHANGED <<inflight, nextId, random, now>>

pressLock ==
    /\ ui.screen = "Vault" /\ ui.alert = "Lock Vault"
    /\ ui.mount < MaxMounts
    /\ lockVault([name |-> "Lock"])

NextScreens ==
    \/ \E u \in Users, strong \in BOOLEAN, fault \in Faults :
          handleRegister(u, strong, fault)
    \/ \E u \in Users : handleLogin(u)
    \/ \E m \in Passwords : handleUnlock(m)
    \/ \E s \in Slots, fails \in BOOLEAN : unlockVaultGetItem(s, fails)
    \/ \E s \in Slots : unlockVaultDecrypt(s)
    \/ handleLogout
    \/ hardwareBackPress
    \/ handleLockVault
    \/ \E e \in EntryInputs : handleSave(e)
    \/ \E s \in Slots, fails \in BOOLEAN : storeEncryptedVault(s, fails)
    \/ pressOK
    \/ pressCancel
    \/ pressLogout
    \/ pressVaultLogout
    \/ pressLock

\* the application driven through its screens
SpecScreens == Init /\ [][NextScreens]_vars

\* the screens, used while a call made from them is still awaiting: the
\* hardware back button is not disabled by an unlock in progress
SpecBackPress == InitOverlap /\ [][NextScreens]_vars

\* ------------------------------------------------------- DebugScreen.tsx
RECURSIVE Strings(_, _)
Strings(units, n) ==
    IF n = 0 THEN {<<>>}
    ELSE LET shorter == Strings(units, n - 1)
         IN  shorter \cup {Append(str, u) : str \in shorter, u \in units}

TextUnits == {Char("a"), BOM, HighSurrogate, LowSurrogate}
PlainTexts == Strings(TextUnits, MaxTextLen)

TestEntry ==
    [id |-> "test1", site |-> "test.com", username |-> "testuser",
     password |-> "testpass123", createdAt |-> 0, updatedAt |-> 0]
TestEntryLists == {<<>>, <<TestEntry>>}

\* the result of a test that has not run
NotRun == [ok |-> FALSE, error |-> "not run"]

\* the crypto and storage functions are given any plaintext, entry list and
\* password, not only the literals of the debug screen
InitCrypto ==
    /\ vaultState = initialState
    /\ authState = [isLoggedIn |-> FALSE, currentUser |-> Null]
    /\ secureStore = << >>
    /\ inflight = [s \in Slots |-> Idle]
    /\ outcome = NoOutcome
    /\ nextId = 1
    /\ random = 0
    /\ now = 0
    /\ overlaps = 0
    /\ platform = WebCrypto
    /\ probe \in [test : {"input"}, testData : PlainTexts, testPassword : Passwords,
                  username : Users, testEntries : TestEntryLists,
                  masterPassword : {Null}, result : {NotRun}]
    /\ ui = initialUi

\* encryptData then decryptData under the same password
runCryptoTest ==
    /\ probe.test \in {"input", "runCryptoTest"}
    /\ random < MaxRandom
    /\ LET encrypted == encryptData(probe.testData, probe.testPassword, random)
       IN  probe' = [probe EXCEPT
                        !.test = "runCryptoTest",
                        !.result = IF encrypted.ok
                                   THEN decryptData(encrypted.value, probe.testPassword)
                                   ELSE encrypted]
    /\ random' = random + 1
    /\ UNCHANGED <<vaultState, authState, secureStore, inflight, outcome, nextId, now,
                   overlaps, platform, ui>>

\* storeEncryptedVault then getEncryptedVault for the same user and password
runStorageTest ==
    /\ probe.test \in {"input", "runStorageTest"}
    /\ random < MaxRandom
    /\ LET encrypted == sealVault(probe.testEntries, probe.testPassword, now, random)
       IN  IF encrypted.ok
           THEN /\ secureStore' = setItemAsync(secureStore, VaultKey(probe.username),
                                               encrypted.value)
                /\ probe' = [probe EXCEPT
                                !.test = "runStorageTest",
                                !.result = getEncryptedVault(secureStore', probe.username,
                                                             probe.testPassword)]
           ELSE /\ UNCHANGED secureStore
                /\ probe' = [probe EXCEPT
                                !.test = "runStorageTest",
                                !.result = [ok |-> FALSE,
                                            error |-> "Failed to store encrypted vault"]]
    /\ random' = random + 1
    /\ UNCHANGED <<vaultState, authState, inflight, outcome, nextId, now,
                   overlaps, platform, ui>>

\* what can happen to the bytes of a stored blob
Corruptions == {"base64", "salt", "iv", "ciphertext", "truncated"}

corrupted(encrypted, how) ==
    CASE how = "base64" -> [encrypted EXCEPT !.base64 = FALSE]
      [] how = "salt" -> [encrypted EXCEPT !.salt = @ + 1]
      [] how = "iv" -> [encrypted EXCEPT !.iv = @ + 1]
      [] how = "ciphertext" -> [encrypted EXCEPT !.tag = "forged"]
      [] how = "truncated" -> [encrypted EXCEPT !.tag = "cut"]

\* the blob is as encryptData returned it
Authentic(encrypted) ==
    /\ encrypted.base64
    /\ encrypted.salt = encrypted.sealed.key[2]
    /\ encrypted.iv = encrypted.sealed.iv
    /\ encrypted.tag = "authentic"

\* the stored blob of the user is damaged or tampered with
corruptBlob(how) ==
    /\ probe.test = "runStorageTest"
    /\ hasItem(secureStore, VaultKey(probe.username))
    /\ Authentic(secureStore[VaultKey(probe.username)])
    /\ secureStore' = [secureStore EXCEPT ![VaultKey(probe.username)] = corrupted(@, how)]
    /\ UNCHANGED <<vaultState, authState, inflight, outcome, nextId, random, now,
                   overlaps, platform, probe, ui>>

\* getEncryptedVault for the user, under any password
retrieveVault(masterPassword) ==
    /\ probe.test \in {"runStorageTest", "getEncryptedVault"}
    /\ probe' = [probe EXCEPT
                    !.test = "getEncryptedVault",
                    !.masterPassword = masterPassword,
                    !.result = getEncryptedVault(secureStore, probe.username,
                                                 masterPassword)]
    /\ UNCHANGED <<vaultState, authState, secureStore, inflight, outcome, nextId,
                   random, now, overlaps, platform, ui>>

NextCrypto ==
    \/ runCryptoTest
    \/ runStorageTest
    \/ \E how \in Corruptions : corruptBlob(how)
    \/ \E m \in Passwords : retrieveVault(m)

\* the crypto and storage functions called on their own
SpecCrypto == InitCrypto /\ [][NextCrypto]_vars

\* ------------------------------------------- VaultContext.searchEntries
\* the strings that are searched are sequences of characters
toLowerCase(str) ==
    [i \in DOMAIN str |->
        CASE str[i] = "E" -> "e"
          [] str[i] = "X" -> "x"
          [] str[i] = "O" -> "o"
          [] OTHER -> str[i]]

RECURSIVE trimStart(_)
trimStart(str) ==
    IF str # <<>> /\ Head(str) = " " THEN trimStart(Tail(str)) ELSE str

RECURSIVE trimEnd(_)
trimEnd(str) ==
    IF str # <<>> /\ str[Len(str)] = " "
    THEN trimEnd(SubSeq(str, 1, Len(str) - 1)) ELSE str

trim(str) == trimEnd(trimStart(str))

includes(str, searchString) ==
    \E i \in 0..Len(str) :
        /\ i + Len(searchString) <= Len(str)
        /\ SubSeq(str, i + 1, i + Len(searchString)) = searchString

\* searchEntries that compares the entries as they are written
searchEntries_CaseSensitive(query) ==
    IF trim(query) = <<>> THEN vaultState.entries
    ELSE LET lowercaseQuery == toLowerCase(query)
             match(entry) == \/ includes(entry.site, lowercaseQuery)
                             \/ includes(entry.username, lowercaseQuery)
         IN  SelectSeq(vaultState.entries, match)

searchEntries(query) ==
    IF trim(query) = <<>> THEN vaultState.entries
    ELSE LET lowercaseQuery == toLowerCase(query)
             match(entry) == \/ includes(toLowerCase(entry.site), lowercaseQuery)
                             \/ includes(toLowerCase(entry.username), lowercaseQuery)
         IN  SelectSeq(vaultState.entries, match)

QueryChars == {"e", "E", "x", "X", "o", " "}
Queries == Strings(QueryChars, MaxQueryLen)

SearchedFields ==
    [site : {<<"E", "x">>, <<"x", "e">>, <<"o">>}, username : {<<"e">>, <<"O">>}]

\* entry lists of an unlocked vault, the id of an entry being its position
SearchedLists ==
    {[i \in DOMAIN l |-> [id |-> i, site |-> l[i].site, username |-> l[i].username,
                          password |-> "p@ss", createdAt |-> 0, updatedAt |-> 0]] :
        l \in Strings(SearchedFields, MaxSearched)}

\* an unlocked vault with entries in memory, and a query
InitSearch ==
    /\ vaultState \in [entries : SearchedLists, isLocked : {FALSE},
                       masterPassword : {"pw1"}]
    /\ authState = [isLoggedIn |-> TRUE, currentUser |-> "alice"]
    /\ secureStore = setItemAsync(setItemAsync(<< >>, USERS_KEY, <<User("alice")>>),
                                  CURRENT_USER_KEY, User("alice"))
    /\ inflight = [s \in Slots |-> Idle]
    /\ outcome = NoOutcome
    /\ nextId = 1
    /\ random = 0
    /\ now = 0
    /\ overlaps = 0
    /\ platform = WebCrypto
    /\ probe \in [test : {"input"}, query : Queries, result : {<<>>}]
    /\ ui = [screen |-> "Vault", attempts |-> 0, alert |-> NoAlert, mount |-> 1]

\* searchEntries(query) is called and returns
search ==
    /\ probe.test = "input"
    /\ probe' = [probe EXCEPT !.test = "searchEntries",
                              !.result = searchEntries(probe.query)]
    /\ UNCHANGED <<vaultState, authState, secureStore, inflight, outcome, nextId,
                   random, now, overlaps, platform, ui>>

NextSearch == search

\* searchEntries called on its own
SpecSearch == InitSearch /\ [][NextSearch]_vars

\* ------------------------------------- CryptoUtils.generateSecurePassword
Lowercase ==
    <<
      "a", "b", "c", "d", "e", "f", "g", "h", "i", "j", "k", "l", "m",
      "n", "o", "p", "q", "r", "s", "t", "u", "v", "w", "x", "y", "z"
    >>

Uppercase ==
    <<
      "A", "B", "C", "D", "E", "F", "G", "H", "I", "J", "K", "L", "M",
      "N", "O", "P", "Q", "R", "S", "T", "U", "V", "W", "X", "Y", "Z"
    >>

Numbers ==
    <<
      "0", "1", "2", "3", "4", "5", "6", "7", "8", "9"
    >>

Symbols ==
    <<
      "!", "@", "#", "$", "%", "^", "&", "*", "(", ")", "_", "+", "-",
      "=", "[", "]", "{", "}", "|", ";", ":", ",", ".", "<", ">", "?"
    >>

\* the string the characters of the password are drawn from
Charset(includeSymbols, includeNumbers, includeUppercase, includeLowercase) ==
    (IF includeLowercase THEN Lowercase ELSE <<>>)
        \o (IF includeUppercase THEN Uppercase ELSE <<>>)
        \o (IF includeNumbers THEN Numbers ELSE <<>>)
        \o (IF includeSymbols THEN Symbols ELSE <<>>)

\* generateSecurePassword whose symbols are always part of the charset
generateSecurePassword_AlwaysSymbols(length, includeSymbols, includeNumbers, includeUppercase, includeLowercase, array) ==
    LET charset == (IF includeLowercase THEN Lowercase ELSE <<>>)
                   \o (IF includeUppercase THEN Uppercase ELSE <<>>)
                   \o (IF includeNumbers THEN Numbers ELSE <<>>)
                   \o Symbols
        charsetSize == (IF includeLowercase THEN 26 ELSE 0)
                       + (IF includeUppercase THEN 26 ELSE 0)
                       + (IF includeNumbers THEN 10 ELSE 0)
                       + 27
    IN  [ok |-> TRUE,
         password |-> [i \in 1..length |-> charset[(array[i] % Len(charset)) + 1]],
         entropy |-> [length |-> length, charsetSize |-> charsetSize]]

\* generateSecurePassword without the check of the empty charset: charset[NaN]
\* is undefined, which += writes as "undefined"
generateSecurePassword_NoEmptyCheck(length, includeSymbols, includeNumbers, includeUppercase, includeLowercase, array) ==
    LET charset == Charset(includeSymbols, includeNumbers, includeUppercase,
                           includeLowercase)
        charsetSize == (IF includeLowercase THEN 26 ELSE 0)
                       + (IF includeUppercase THEN 26 ELSE 0)
                       + (IF includeNumbers THEN 10 ELSE 0)
                       + (IF includeSymbols THEN 27 ELSE 0)
    IN  [ok |-> TRUE,
         password |-> [i \in 1..length |->
                          IF charset = <<>> THEN "undefined"
                          ELSE charset[(array[i] % Len(charset)) + 1]],
         entropy |-> [length |-> length, charsetSize |-> charsetSize]]

\* array holds the bytes crypto.getRandomValues wrote, one for each character
generateSecurePassword(length, includeSymbols, includeNumbers, includeUppercase, includeLowercase, array) ==
    LET charset == Charset(includeSymbols, includeNumbers, includeUppercase,
                           includeLowercase)
        charsetSize == (IF includeLowercase THEN 26 ELSE 0)
                       + (IF includeUppercase THEN 26 ELSE 0)
                       + (IF includeNumbers THEN 10 ELSE 0)
                       + (IF includeSymbols THEN 27 ELSE 0)
    IN  IF charset = <<>>
        THEN [ok |-> FALSE, error |-> "At least one character type must be selected"]
        ELSE [ok |-> TRUE,
              password |-> [i \in 1..length |->
                               charset[(array[i] % Len(charset)) + 1]],
              entropy |-> [length |-> length, charsetSize |-> charsetSize]]

\* the least and the greatest length PasswordGeneratorScreen accepts
MinLength == 4
MaxLength == 128

\* PasswordGeneratorScreen.validateSettings: the message, or Null
validateSettings(length, includeSymbols, includeNumbers, includeUppercase, includeLowercase) ==
    IF length < MinLength \/ length > MaxLength
    THEN "Password length must be between 4 and 128 characters"
    ELSE IF ~includeSymbols /\ ~includeNumbers /\ ~includeUppercase /\ ~includeLowercase
    THEN "At least one character type must be selected"
    ELSE Null

\* byte values crypto.getRandomValues may write
RandomBytes == {0, 61, 255}

\* settings of the generator and the random bytes of one call; the function
\* takes any length, the screen passes on those it accepts
InitGenerate ==
    /\ vaultState = initialState
    /\ authState = [isLoggedIn |-> FALSE, currentUser |-> Null]
    /\ secureStore = << >>
    /\ inflight = [s \in Slots |-> Idle]
    /\ outcome = NoOutcome
    /\ nextId = 1
    /\ random = 0
    /\ now = 0
    /\ overlaps = 0
    /\ platform = WebCrypto
    /\ probe \in {r \in [test : {"input"}, length : 0..MaxGenerated,
                          includeSymbols : BOOLEAN, includeNumbers : BOOLEAN,
                          includeUppercase : BOOLEAN, includeLowercase : BOOLEAN,
                          array : Strings(RandomBytes, MaxGenerated),
                          result : {NotRun}] :
                      Len(r.array) = r.length}
    /\ ui = initialUi

\* generateSecurePassword is called with the settings and returns
generate ==
    /\ probe.test = "input"
    /\ probe' = [probe EXCEPT
                    !.test = "generateSecurePassword",
                    !.result = generateSecurePassword(
                                   probe.length, probe.includeSymbols,
                                   probe.includeNumbers, probe.includeUppercase,
                                   probe.includeLowercase, probe.array)]
    /\ UNCHANGED <<vaultState, authState, secureStore, inflight, outcome, nextId,
                   random, now, overlaps, platform, ui>>

\* PasswordGeneratorScreen.generatePassword: the settings are validated, then
\* generateSecurePassword is called and what it throws is caught
generatePassword ==
    /\ probe.test = "input"
    /\ LET validationError == validateSettings(
                                  probe.length, probe.includeSymbols,
                                  probe.includeNumbers, probe.includeUppercase,
                                  probe.includeLowercase)
           result == generateSecurePassword(
                         probe.length, probe.includeSymbols,
                         probe.includeNumbers, probe.includeUppercase,
                         probe.includeLowercase, probe.array)
       IN  probe' = [probe EXCEPT
                        !.test = "generatePassword",
                        !.result = IF validationError # Null
                                     THEN [ok |-> FALSE, error |-> validationError]
                                   ELSE IF ~result.ok
                                     THEN [ok |-> FALSE,
                                           error |-> "Failed to generate password"]
                                   ELSE result]
    /\ UNCHANGED <<vaultState, authState, secureStore, inflight, outcome, nextId,
                   random, now, overlaps, platform, ui>>

NextGenerate ==
    \/ generate
    \/ generatePassword

\* generateSecurePassword called on its own
SpecGenerate == InitGenerate /\ [][NextGenerate]_vars

\* ------------------------------------------------------------ properties
Mutations == {"addEntry", "updateEntry", "deleteEntry"}

\* the operation awaiting in slot s settles in this step
Settles(s, kind) == inflight[s].kind = kind /\ inflight'[s] = Idle

Unlocked == ~vaultState.isLocked
LoggedIn == authState.currentUser # Null

\* what unlocking the current user's vault with the session's password reads
PersistedEntries == getEncryptedVault(secureStore, authState.currentUser,
                                      vaultState.masterPassword)

\* C1: when addEntry resolves, the sealed blob of the user opens under the
\* master password of the session to a list that contains the new entry (this
\* is what lock followed by unlock with the same password returns), and to
\* exactly that entry when the vault was empty.
C1_AddedEntryIsPersisted ==
    [][\A s \in Slots :
        (Settles(s, "addEntry") /\ outcome' = Resolved("addEntry")) =>
            LET op == inflight[s]
                r == getEncryptedVault(secureStore', op.username, op.masterPassword)
            IN  /\ r.ok
                /\ \E i \in DOMAIN r.entries : r.entries[i] = op.locals.newEntry
                /\ op.entries = <<>> => r.entries = <<op.locals.newEntry>>]_vars

\* C2: while the vault is unlocked and no vault operation is awaiting, the
\* persisted blob of the current user opens under the session's master
\* password to the in-memory entry list (no blob: the empty list).
C2_PersistedEqualsMemory ==
    (Unlocked /\ LoggedIn /\ Busy = {}) =>
        PersistedEntries = [ok |-> TRUE, entries |-> vaultState.entries]

\* C3: in a logged-in session the vault is fully locked (locked, no master
\* password, no entries) or fully unlocked (unlocked with a non-empty master
\* password), whatever calls were made.
C3_LockedOrUnlocked ==
    LoggedIn =>
        \/ vaultState = initialState
        \/ ~vaultState.isLocked /\ ~Falsy(vaultState.masterPassword)

\* C4: addEntry, updateEntry and deleteEntry called on the locked vault of a
\* logged-in user are rejected and change neither the in-memory entries nor
\* the store.
C4_LockedMutationRejected ==
    [][(/\ vaultState.isLocked /\ LoggedIn
        /\ \/ \E e \in EntryInputs : addEntry(e, Api)
           \/ \E id \in Ids, u \in EntryUpdates : updateEntry(id, u)
           \/ \E id \in Ids : deleteEntry(id))
       => /\ ~outcome'.ok /\ outcome'.op \in Mutations
          /\ vaultState'.entries = vaultState.entries
          /\ secureStore' = secureStore]_vars

\* the password a sealed blob was sealed under
SealedUnder(encrypted) == encrypted.sealed.key[1]

\* C5: an unlockVault that read a blob sealed under another password than the
\* one it was given rejects with "Invalid master password" and leaves the
\* vault state and the store as they were; reading the blob changes nothing
\* either.
C5_WrongPasswordRejected ==
    [][\A s \in Slots :
        LET op == inflight[s]
        IN  /\ (/\ op.kind = "unlockVault" /\ op.stage = "getItem"
                /\ inflight'[s] # op
                /\ hasItem(secureStore, VaultKey(op.username))
                /\ SealedUnder(secureStore[VaultKey(op.username)]) # op.masterPassword)
               => vaultState' = vaultState /\ secureStore' = secureStore
            /\ (/\ op.kind = "unlockVault" /\ op.stage = "decrypt"
                /\ inflight'[s] = Idle
                /\ SealedUnder(op.encrypted) # op.masterPassword)
               => /\ outcome' = Rejected("unlockVault", "Invalid master password")
                  /\ vaultState' = vaultState
                  /\ secureStore' = secureStore]_vars

\* a wrong password was rejected on the locked vault of a user who has a blob
C5_Witness ==
    /\ outcome = Rejected("unlockVault", "Invalid master password")
    /\ vaultState = initialState
    /\ LoggedIn /\ hasItem(secureStore, VaultKey(authState.currentUser))

\* C7: lockVault leaves the vault locked with no entries and no master
\* password, from any vault state, and leaves the store as it was.
C7_LockClearsSession ==
    [][lockVault(Api) => vaultState' = initialState /\ secureStore' = secureStore]_vars

\* a session that had saved entries was locked: only LOCK_VAULT leads from an
\* unlocked vault, which a save needs, back to a locked one
C7_Witness ==
    /\ vaultState = initialState
    /\ \E u \in Users :
          /\ hasItem(secureStore, VaultKey(u))
          /\ getEncryptedVault(secureStore, u, SealedUnder(secureStore[VaultKey(u)])).entries # <<>>

\* C8: when changeMasterPassword(old, new) with new # old resolves, the
\* session is unlocked under new with the entries it was called on, the blob
\* opens under new to those entries and does not open under old (what a
\* later unlock reads, lockVault leaving the store alone).
C8_PasswordChanged ==
    [][\A s \in Slots :
        (/\ Settles(s, "changeMasterPassword")
         /\ outcome' = Resolved("changeMasterPassword")
         /\ inflight[s].locals.newPassword # inflight[s].locals.oldPassword)
        => LET op == inflight[s]
           IN  /\ vaultState' = [entries |-> op.entries, isLocked |-> FALSE,
                                 masterPassword |-> op.locals.newPassword]
               /\ getEncryptedVault(secureStore', op.username, op.locals.newPassword)
                    = [ok |-> TRUE, entries |-> op.entries]
               /\ getEncryptedVault(secureStore', op.username, op.locals.oldPassword)
                    = [ok |-> FALSE, error |-> "Invalid master password"]]_vars

\* the master password of a vault that holds an entry was changed
C8_Witness ==
    /\ outcome = Resolved("changeMasterPassword")
    /\ Unlocked /\ LoggedIn /\ vaultState.entries # <<>>
    /\ hasItem(secureStore, VaultKey(authState.currentUser))
    /\ PersistedEntries = [ok |-> TRUE, entries |-> vaultState.entries]
    /\ \E m \in Passwords :
          ~getEncryptedVault(secureStore, authState.currentUser, m).ok

\* C9: changeMasterPassword is rejected, changing neither the vault state nor
\* the store, when the vault is locked, nobody is logged in or old is not the
\* session's master password; and when sealing under new fails it rejects
\* and the session keeps its master password.
C9_PasswordChangeRejected ==
    [][/\ \A old \in Passwords, new \in Passwords :
            (/\ changeMasterPassword(old, new)
             /\ \/ vaultState.isLocked
                \/ ~LoggedIn
                \/ vaultState.masterPassword # old)
            => /\ ~outcome'.ok /\ outcome'.op = "changeMasterPassword"
               /\ inflight' = inflight
               /\ vaultState' = vaultState
               /\ secureStore' = secureStore
       /\ \A s \in Slots :
            (Settles(s, "changeMasterPassword") /\ storeEncryptedVault(s, TRUE))
            => /\ ~outcome'.ok /\ outcome'.op = "changeMasterPassword"
               /\ vaultState'.masterPassword = vaultState.masterPassword]_vars

\* an unlocked session was refused a change for a wrong old password
C9_Witness ==
    /\ outcome = Rejected("changeMasterPassword", "Invalid current master password")
    /\ Unlocked /\ LoggedIn /\ Busy = {}

\* C6: no unlock attempt is made from an UnlockScreen that has already counted
\* LockoutThreshold failed attempts: the fourth attempt needs a new login.
C6_NoFourthAttempt ==
    \A s \in Slots :
        (inflight[s].kind = "unlockVault" /\ inflight[s].caller.name = "handleUnlock")
            => inflight[s].caller.attempts < LockoutThreshold

\* C10: once two overlapping addEntry calls have both resolved, the sealed
\* blob opens to the in-memory list, which holds both entries.
C10_OverlappingAddsPersisted ==
    (/\ Busy = {} /\ Unlocked /\ LoggedIn
     /\ overlaps < MaxOverlaps
     /\ outcome = Resolved("addEntry")
     /\ nextId = 3 /\ random = 2
     /\ Len(vaultState.entries) = 2)
        => PersistedEntries = [ok |-> TRUE, entries |-> vaultState.entries]

\* C11: when the save of addEntry, updateEntry or deleteEntry fails, the call
\* rejects and the in-memory entry list is again the list of the state the
\* call was made on.
C11_FailedSaveRolledBack ==
    [][\A s \in Slots :
        (inflight[s].kind \in Mutations /\ storeEncryptedVault(s, TRUE))
            => /\ ~outcome'.ok /\ outcome'.op = inflight[s].kind
               /\ vaultState'.entries = inflight[s].entries]_vars

\* C12: sealing then opening under the same password gives back what was
\* sealed: decryptData(encryptData(p, m), m) = p for every plaintext p, and
\* getEncryptedVault after storeEncryptedVault returns the stored entry list.
C12_SealOpenRoundTrip ==
    /\ probe.test = "runCryptoTest"
          => probe.result = [ok |-> TRUE, data |-> probe.testData]
    /\ probe.test = "runStorageTest"
          => probe.result = [ok |-> TRUE, entries |-> probe.testEntries]

\* C13: a save over the blob an earlier save of the same entries under the
\* same master password wrote stores a different blob, with another salt and another iv, and
\* both blobs open under that password to those entries.
C13_FreshSaltAndNonce ==
    [][(/\ runStorageTest
        /\ hasItem(secureStore, VaultKey(probe.username))
        /\ Authentic(secureStore[VaultKey(probe.username)]))
        => LET old == secureStore[VaultKey(probe.username)]
               new == secureStore'[VaultKey(probe.username)]
               opened == [ok |-> TRUE, entries |-> probe.testEntries]
           IN  /\ new # old
               /\ new.salt # old.salt
               /\ new.iv # old.iv
               /\ openVault(old, TRUE, probe.testPassword) = opened
               /\ openVault(new, TRUE, probe.testPassword) = opened]_vars

\* the same entry list was saved twice under the same password
C13_Witness ==
    /\ probe.test = "runStorageTest"
    /\ random = 2
    /\ probe.testEntries # <<>>
    /\ hasItem(secureStore, VaultKey(probe.username))
    /\ secureStore[VaultKey(probe.username)].salt = 1

\* C14: with no blob under the user's vault key, getEncryptedVault returns
\* the empty list for every master password, and an unlockVault whose read
\* of the store finds no item resolves and leaves the vault unlocked with no
\* entries under the password it was given.
C14_AbsentBlobIsEmptyVault ==
    [][\A s \in Slots :
        (/\ unlockVaultGetItem(s, FALSE)
         /\ ~hasItem(secureStore, VaultKey(inflight[s].username)))
        => /\ \A m \in Passwords :
                 getEncryptedVault(secureStore, inflight[s].username, m)
                    = [ok |-> TRUE, entries |-> <<>>]
           /\ outcome' = Resolved("unlockVault")
           /\ vaultState' = [entries |-> <<>>, isLocked |-> FALSE,
                             masterPassword |-> inflight[s].masterPassword]
           /\ secureStore' = secureStore]_vars

\* a vault that was never saved has been unlocked
C14_Witness ==
    /\ outcome = Resolved("unlockVault")
    /\ LoggedIn /\ ~hasItem(secureStore, VaultKey(authState.currentUser))
    /\ vaultState = [entries |-> <<>>, isLocked |-> FALSE, masterPassword |-> "pw2"]

\* C15: getEncryptedVault on a stored blob that is damaged or tampered with,
\* under any password, and on an intact blob under another password than it
\* was sealed with, fails with the one error "Invalid master password" and
\* returns no entries.
C15_FailedOpenIsGeneric ==
    [][\A m \in Passwords :
        (/\ retrieveVault(m)
         /\ hasItem(secureStore, VaultKey(probe.username))
         /\ \/ ~Authentic(secureStore[VaultKey(probe.username)])
            \/ SealedUnder(secureStore[VaultKey(probe.username)]) # m)
        => probe'.result = [ok |-> FALSE, error |-> "Invalid master password"]]_vars

\* a tampered blob was opened with the password it had been sealed under
C15_Witness ==
    /\ probe.test = "getEncryptedVault"
    /\ hasItem(secureStore, VaultKey(probe.username))
    /\ ~Authentic(secureStore[VaultKey(probe.username)])
    /\ probe.masterPassword = SealedUnder(secureStore[VaultKey(probe.username)])
    /\ probe.testEntries # <<>>
    /\ probe.result = [ok |-> FALSE, error |-> "Invalid master password"]

\* C16: when the store read of an unlock attempt made on UnlockScreen fails,
\* the user is not shown the alert of a wrong password.
C16_ReadFailureNotWrongPassword ==
    [][\A s \in Slots :
        (/\ unlockVaultGetItem(s, TRUE)
         /\ inflight[s].caller.name = "handleUnlock")
        => /\ outcome' = Rejected("unlockVault", "Failed to retrieve vault data")
           /\ ui'.alert # "Incorrect Password"]_vars

\* C17: on a runtime without crypto.subtle every unlockVault and every save
\* that settles is rejected, with another error than "Invalid master
\* password", and changes neither the vault state nor the store.
C17_NoCryptoFailsLoudly ==
    [][\A s \in Slots :
        (/\ ~platform.subtle
         /\ inflight[s] # Idle /\ inflight'[s] = Idle
         /\ \/ \E fails \in BOOLEAN : unlockVaultGetItem(s, fails)
            \/ unlockVaultDecrypt(s)
            \/ \E fails \in BOOLEAN : storeEncryptedVault(s, fails))
        => /\ ~outcome'.ok
           /\ outcome'.error # "Invalid master password"
           /\ vaultState' = vaultState
           /\ secureStore' = secureStore]_vars

\* what can be read from a stored value without a key: everything but the
\* sealed part of a blob
IsUserRecord(value) ==
    /\ DOMAIN value = {"username", "vault_file"}
    /\ value.username \in Users
    /\ value.vault_file \notin Passwords

IsSealedBlob(value) ==
    /\ DOMAIN value = {"base64", "salt", "iv", "sealed", "tag"}
    /\ value.base64 \in BOOLEAN
    /\ value.salt \in 0..MaxRandom /\ value.iv \in 0..MaxRandom
    /\ value.tag \in {"authentic", "forged", "cut"}

\* C18: the store holds nothing but the user registry, the current-user
\* record and sealed vault blobs, and neither a master password nor a derived
\* key can be read from any of them: they occur only inside the sealed part
\* of a blob.
C18_StoreHoldsNoSecret ==
    \A k \in DOMAIN secureStore :
        \/ /\ k = USERS_KEY
           /\ \A i \in DOMAIN secureStore[k] : IsUserRecord(secureStore[k][i])
        \/ /\ k = CURRENT_USER_KEY
           /\ IsUserRecord(secureStore[k])
        \/ /\ \E u \in Users : k = VaultKey(u)
           /\ IsSealedBlob(secureStore[k])

\* the registry, the current user and a blob with an entry are stored, the
\* blob sealed under a master password that was changed
C18_Witness ==
    /\ outcome = Resolved("changeMasterPassword")
    /\ Unlocked /\ LoggedIn /\ vaultState.entries # <<>>
    /\ DOMAIN secureStore = {USERS_KEY, CURRENT_USER_KEY, VaultKey(authState.currentUser)}
    /\ PersistedEntries = [ok |-> TRUE, entries |-> vaultState.entries]

\* the two characters are the same letter, whatever their case
SameLetter(c, d) == toLowerCase(<<c>>) = toLowerCase(<<d>>)

\* q occurs in str when case is ignored
ContainsIgnoringCase(str, q) ==
    \E i \in 0..Len(str) :
        /\ i + Len(q) <= Len(str)
        /\ \A k \in 1..Len(q) : SameLetter(str[i + k], q[k])

\* C19: searchEntries(q) for a q that is not blank returns the in-memory
\* entries whose site or username contains q when case is ignored, each once
\* and in their order, and changes neither the vault state nor the store.
C19_SearchIsFilter ==
    [][(search /\ \E k \in DOMAIN probe.query : probe.query[k] # " ")
        => LET q == probe.query
               entries == vaultState.entries
               hits == {i \in DOMAIN entries :
                           \/ ContainsIgnoringCase(entries[i].site, q)
                           \/ ContainsIgnoringCase(entries[i].username, q)}
               result == probe'.result
           IN  /\ Len(result) = Cardinality(hits)
               /\ \A i \in hits : \E j \in DOMAIN result : result[j] = entries[i]
               /\ \A j \in DOMAIN result : result[j].id \in hits
               /\ \A j, k \in DOMAIN result : j < k => result[j].id < result[k].id
               /\ vaultState' = vaultState
               /\ secureStore' = secureStore]_vars

\* "EX" found "Ex" in the site of the first entry and not the second entry
C19_Witness ==
    /\ probe.test = "searchEntries"
    /\ probe.query = <<"E", "X">>
    /\ Len(vaultState.entries) = 2
    /\ vaultState.entries[1].site = <<"E", "x">>
    /\ probe.result = <<vaultState.entries[1]>>

\* the characters of a string
Chars(str) == {str[i] : i \in DOMAIN str}

\* C20: for a length of the accepted range and a selection of classes that
\* is not empty, generateSecurePassword returns a password of that length
\* whose characters all belong to a selected class.
C20_GeneratedFromSelectedClasses ==
    [][(/\ generate
        /\ \/ probe.includeSymbols \/ probe.includeNumbers
           \/ probe.includeUppercase \/ probe.includeLowercase)
        => /\ probe'.result.ok
           /\ Len(probe'.result.password) = probe.length
           /\ \A i \in DOMAIN probe'.result.password :
                 LET c == probe'.result.password[i]
                 IN  \/ probe.includeLowercase /\ c \in Chars(Lowercase)
                     \/ probe.includeUppercase /\ c \in Chars(Uppercase)
                     \/ probe.includeNumbers /\ c \in Chars(Numbers)
                     \/ probe.includeSymbols /\ c \in Chars(Symbols)]_vars

\* five digits were generated, "5" among them (255 % 10)
C20_Witness ==
    /\ probe.test = "generateSecurePassword"
    /\ probe.length = MaxGenerated
    /\ probe.includeNumbers /\ ~probe.includeSymbols
    /\ ~probe.includeUppercase /\ ~probe.includeLowercase
    /\ probe.result.ok
    /\ Len(probe.result.password) = MaxGenerated
    /\ "5" \in Chars(probe.result.password)

\* C21: for every selection of classes that is not empty, the charsetSize of
\* the entropy length * log2(charsetSize) is the number of characters of the
\* string the password is drawn from, which has 95 characters when all four
\* classes are selected.
C21_CharsetSizeIsCharsetLength ==
    [][(/\ generate
        /\ \/ probe.includeSymbols \/ probe.includeNumbers
           \/ probe.includeUppercase \/ probe.includeLowercase)
        => LET charset == Charset(probe.includeSymbols, probe.includeNumbers,
                                  probe.includeUppercase, probe.includeLowercase)
           IN  /\ probe'.result.ok
               /\ probe'.result.entropy.length = probe.length
               /\ probe'.result.entropy.charsetSize = Cardinality(Chars(charset))
               /\ (/\ probe.includeSymbols /\ probe.includeNumbers
                   /\ probe.includeUppercase /\ probe.includeLowercase)
                  => Cardinality(Chars(charset)) = 95]_vars

\* C22: with no character class selected, generateSecurePassword fails for
\* every length with the error that a character type must be selected, and
\* PasswordGeneratorScreen reports invalid settings; neither gives a password.
C22_NoClassIsRejected ==
    [][(/\ generate \/ generatePassword
        /\ ~probe.includeSymbols /\ ~probe.includeNumbers
        /\ ~probe.includeUppercase /\ ~probe.includeLowercase)
        => /\ ~probe'.result.ok
           /\ "password" \notin DOMAIN probe'.result
           /\ generate =>
                 probe'.result.error = "At least one character type must be selected"
           /\ generatePassword =>
                 probe'.result.error =
                    validateSettings(probe.length, FALSE, FALSE, FALSE, FALSE)]_vars

\* the function was called with no class and a length the screen would refuse
C22_Witness ==
    /\ probe.test = "generateSecurePassword"
    /\ probe.length < MinLength
    /\ ~probe.includeSymbols /\ ~probe.includeNumbers
    /\ ~probe.includeUppercase /\ ~probe.includeLowercase
    /\ probe.result = [ok |-> FALSE,
                       error |-> "At least one character type must be selected"]

\* no two entries of the list have the same id
UniqueIds(entries) ==
    \A i, j \in DOMAIN entries : entries[i].id = entries[j].id => i = j

\* C23: the entries in memory have pairwise distinct ids, and so have the
\* entries every stored blob opens to under the password it was sealed with,
\* whatever was added, updated (with any update fields) or deleted.
C23_IdsAreUnique ==
    /\ UniqueIds(vaultState.entries)
    /\ \A u \in Users :
          hasItem(secureStore, VaultKey(u)) =>
             LET r == getEncryptedVault(secureStore, u,
                                        SealedUnder(secureStore[VaultKey(u)]))
             IN  r.ok => UniqueIds(r.entries)

\* C30: updateEntry(id, updates) leaves the number and the order of the
\* entries as they are and every entry with another id as it is; an entry
\* with that id keeps its id and createdAt, gets the time of the call as
\* updatedAt and the fields of updates; with no such entry the list does not
\* change.
C30_UpdateChangesOneEntry ==
    [][\A id \in Ids, u \in PartialEntries :
        updateEntry(id, u) =>
            LET old == vaultState.entries
                new == vaultState'.entries
            IN  /\ Len(new) = Len(old)
                /\ \A i \in DOMAIN old :
                      IF old[i].id = id
                      THEN /\ new[i].id = old[i].id
                           /\ new[i].createdAt = old[i].createdAt
                           /\ new[i].updatedAt = now
                           /\ \A f \in {"site", "username", "password"} :
                                 new[i][f] = IF f \in DOMAIN u THEN u[f] ELSE old[i][f]
                      ELSE new[i] = old[i]]_vars

\* C24: the attempt counter is zero whenever an UnlockScreen comes to be shown
\* and once an unlock made from the screen has succeeded; while the screen
\* stays, the counter changes only by one, when an unlock made from this
\* screen fails: no failure of an earlier screen is counted.
C24_AttemptsStartAtZero ==
    [][/\ (ui'.screen = "Unlock" /\ (ui.screen # "Unlock" \/ ui'.mount # ui.mount))
            => ui'.attempts = 0
       /\ \A s \in Slots :
            (/\ inflight[s].kind = "unlockVault" /\ inflight'[s] = Idle
             /\ inflight[s].caller.name = "handleUnlock"
             /\ mounted(inflight[s].caller)
             /\ outcome'.ok)
            => ui'.screen = "Vault" /\ ui'.attempts = 0
       /\ (ui.screen = "Unlock" /\ ui'.screen = "Unlock" /\ ui'.mount = ui.mount
           /\ ui'.attempts # ui.attempts)
            => /\ ui'.attempts = ui.attempts + 1
               /\ \E s \in Slots :
                     /\ inflight[s].kind = "unlockVault" /\ inflight'[s] = Idle
                     /\ inflight[s].caller.name = "handleUnlock"
                     /\ inflight[s].caller.mount = ui.mount
                     /\ ~outcome'.ok]_vars

\* on the second UnlockScreen that was mounted, reached from the first by a
\* logout and a login, a failed attempt is counted as the first
C24_Witness ==
    /\ ui.screen = "Unlock" /\ ui.mount = 2
    /\ ui.attempts = 1 /\ ui.alert = "Incorrect Password"
    /\ outcome = Rejected("unlockVault", "Invalid master password")

\* C28: while no user is logged in the vault is locked, with no entries and
\* no master password in memory, also when the logout came while an
\* unlockVault was awaiting.
C28_LoggedOutIsLocked ==
    ~LoggedIn => vaultState = initialState

\* the values of one element of a Uint8Array
Bytes == 0..255

\* the byte values for which generateSecurePassword writes the character c
BytesDrawing(c, includeSymbols, includeNumbers, includeUppercase, includeLowercase) ==
    {b \in Bytes :
        generateSecurePassword(1, includeSymbols, includeNumbers, includeUppercase,
                               includeLowercase, <<b>>).password[1] = c}

\* C25: for every selection of classes that is not empty, every character of
\* the charset is drawn by the same number of the 256 byte values, so that
\* each character of a generated password is as likely as any other of the
\* charset.
C25_DrawIsUniform ==
    [][(/\ generate
        /\ \/ probe.includeSymbols \/ probe.includeNumbers
           \/ probe.includeUppercase \/ probe.includeLowercase)
        => LET charset == Charset(probe.includeSymbols, probe.includeNumbers,
                                  probe.includeUppercase, probe.includeLowercase)
               count(c) == Cardinality(BytesDrawing(c, probe.includeSymbols,
                               probe.includeNumbers, probe.includeUppercase,
                               probe.includeLowercase))
           IN  \A i \in DOMAIN charset :
                  count(charset[i]) * Len(charset) = Cardinality(Bytes)]_vars

\* C26: the save of the vault of user u leaves every item of the store but
\* the one under u's vault key as it is (the blobs of the other users, the
\* registry, the current user), and when it succeeds the item under u's
\* vault key is the new blob and nothing of the blob it replaces.
C26_SaveWritesOneKey ==
    [][\A s \in Slots, fails \in BOOLEAN :
        storeEncryptedVault(s, fails) =>
            LET op == inflight[s]
                key == VaultKey(op.username)
            IN  /\ DOMAIN secureStore' \ {key} = DOMAIN secureStore \ {key}
                /\ \A k \in DOMAIN secureStore \ {key} : secureStore'[k] = secureStore[k]
                /\ outcome'.ok =>
                      /\ hasItem(secureStore', key)
                      /\ secureStore'[key] =
                            sealVault(op.entries, op.masterPassword, op.lastModified,
                                      random).value
                /\ ~outcome'.ok => secureStore' = secureStore]_vars

\* alice saved her vault on a device where bob had saved his
C26_Witness ==
    /\ outcome = Resolved("addEntry")
    /\ authState.currentUser = "alice"
    /\ hasItem(secureStore, VaultKey("alice")) /\ hasItem(secureStore, VaultKey("bob"))
    /\ secureStore[VaultKey("bob")].salt = 0
    /\ secureStore[VaultKey("alice")].salt = 1
    /\ Registered(secureStore) = Accounts

\* C29: after a register call, resolved or rejected, every user record of
\* the registry is still in it, and a call that resolved has added the record
\* of the new username and no other.
C29_RegisterKeepsAccounts ==
    [][\A u \in Accounts, strong \in BOOLEAN, fault \in Faults :
        register(u, strong, Api, fault) =>
            LET before == getUsers(secureStore)
                after == getUsers(secureStore')
            IN  /\ Len(after) >= Len(before)
                /\ SubSeq(after, 1, Len(before)) = before
                /\ outcome'.ok => after = Append(before, User(u))]_vars

\* C27: while the vault is unlocked and no operation is awaiting, the blob
\* stored for the current user, if there is one, opens under the master
\* password of the session, also after changeMasterPassword was awaiting at
\* the same time as an addEntry, updateEntry or deleteEntry.
C27_BlobOpensUnderSessionPassword ==
    (/\ Unlocked /\ LoggedIn /\ Busy = {}
     /\ hasItem(secureStore, VaultKey(authState.currentUser)))
        => PersistedEntries.ok

====
